---- MODULE Spec2Model ----
(***************************************************************************)
(* Antigravity Skill Manager (src/src/antigravity_skills/cli.py).          *)
(*                                                                         *)
(* Texts (file contents, URLs, skill bodies) are sequences of symbols.  A  *)
(* symbol is a one-character string, or a whole marker comment line        *)
(* "<!-- ANTHROPIC_SKILL_START: n -->" / "<!-- ANTHROPIC_SKILL_END: n -->" *)
(* taken as one symbol; skill names are opaque strings.                    *)
(***************************************************************************)
EXTENDS Integers, Sequences, FiniteSets, TLC

(***************************************************************************)
(* Bounds of the model.                                                    *)
(***************************************************************************)
MaxContentLen == 2
MaxDocLen == 11
MaxDescLen == 3
MaxBodyLen == 2
MaxUrlLen == 5
MaxCliDocLen == 17

Names == {"a", "b"}

NL == "\n"
SP == " "
BS == "\\"

(***************************************************************************)
(* Markers of update_global_rule / remove_artifact.                        *)
(***************************************************************************)
StartMarker(n) == "<!-- ANTHROPIC_SKILL_START: " \o n \o " -->"

EndMarker(n) == "<!-- ANTHROPIC_SKILL_END: " \o n \o " -->"

Markers == {StartMarker(n) : n \in Names} \cup {EndMarker(n) : n \in Names}

SeqsUpTo(S, k) == UNION {[1..m -> S] : m \in 0..k}

(* The rule contents tried: every text of up to MaxContentLen symbols out  *)
(* of newline, backslash and the letters n and x ...                       *)
ContentChars == {NL, BS, "n", "x"}

PlainContents == SeqsUpTo(ContentChars, MaxContentLen)

(* ... and, a skill body being arbitrary text, the texts that are one      *)
(* marker line.                                                            *)
MarkerContents == {<<m>> : m \in Markers}

(***************************************************************************)
(* Python string primitives.                                               *)
(***************************************************************************)
IsSpace(ch) == ch \in {NL, SP}

IsAsciiLetter(ch) == ch \in {"n", "x"}

Contains(s, ch) == \E k \in 1..Len(s) : s[k] = ch

Count(s, ch) == Cardinality({k \in 1..Len(s) : s[k] = ch})

(* first index >= from holding ch, 0 when there is none *)
IndexFrom(s, ch, from) ==
    IF \E k \in from..Len(s) : s[k] = ch
    THEN CHOOSE k \in from..Len(s) : s[k] = ch /\ \A j \in from..(k - 1) : s[j] # ch
    ELSE 0

(* s[i..j], empty when i > j *)
Slice(s, i, j) == IF i > j THEN <<>> ELSE SubSeq(s, i, j)

(* str.lstrip / str.rstrip / str.strip *)
RECURSIVE LStrip(_)
LStrip(s) == IF s # <<>> /\ IsSpace(Head(s)) THEN LStrip(Tail(s)) ELSE s

RECURSIVE RStrip(_)
RStrip(s) ==
    IF s # <<>> /\ IsSpace(s[Len(s)]) THEN RStrip(SubSeq(s, 1, Len(s) - 1)) ELSE s

Strip(s) == RStrip(LStrip(s))

(* length of the run of newlines starting at index i *)
RECURSIVE NewlineRun(_, _)
NewlineRun(s, i) == IF i <= Len(s) /\ s[i] = NL THEN 1 + NewlineRun(s, i + 1) ELSE 0

(* re.sub(r"\n{3,}", "\n\n", s) *)
RECURSIVE CollapseNewlines(_)
CollapseNewlines(s) ==
    IF s = <<>> THEN <<>>
    ELSE LET r == NewlineRun(s, 1) IN
         IF r >= 3 THEN <<NL, NL>> \o CollapseNewlines(Slice(s, r + 1, Len(s)))
         ELSE IF r >= 1 THEN Slice(s, 1, r) \o CollapseNewlines(Slice(s, r + 1, Len(s)))
         ELSE <<Head(s)>> \o CollapseNewlines(Tail(s))

(***************************************************************************)
(* The block pattern  re.escape(start) .*? re.escape(end)  with re.DOTALL: *)
(* the leftmost start marker at or after `from` and the first end marker   *)
(* after it.  <<0, 0>> when there is no match.                             *)
(***************************************************************************)
SearchBlock(s, n, from) ==
    LET i == IndexFrom(s, StartMarker(n), from)
        j == IF i = 0 THEN 0 ELSE IndexFrom(s, EndMarker(n), i + 1)
    IN IF j = 0 THEN <<0, 0>> ELSE <<i, j>>

(* index of the last symbol of the whitespace run following index j: the *)
(* trailing whitespace class of the removal pattern                      *)
RECURSIVE SkipSpace(_, _)
SkipSpace(s, j) == IF j < Len(s) /\ IsSpace(s[j + 1]) THEN SkipSpace(s, j + 1) ELSE j

(* re's replacement template: \n is a newline, \\ a backslash, a backslash *)
(* before another ASCII letter is an error ("bad escape"), a backslash     *)
(* before anything else stays as written.                                  *)
RECURSIVE ExpandTemplate(_)
ExpandTemplate(t) ==
    IF t = <<>> THEN [ok |-> TRUE, text |-> <<>>]
    ELSE IF Head(t) # BS
    THEN LET r == ExpandTemplate(Tail(t)) IN [ok |-> r.ok, text |-> <<Head(t)>> \o r.text]
    ELSE IF Len(t) = 1 THEN [ok |-> FALSE, text |-> <<>>]
    ELSE LET c == t[2]
             r == ExpandTemplate(Slice(t, 3, Len(t)))
         IN IF c = "n" THEN [ok |-> r.ok, text |-> <<NL>> \o r.text]
            ELSE IF c = BS THEN [ok |-> r.ok, text |-> <<BS>> \o r.text]
            ELSE IF IsAsciiLetter(c) THEN [ok |-> FALSE, text |-> <<>>]
            ELSE [ok |-> r.ok, text |-> <<BS, c>> \o r.text]

(* pattern.sub(repl, s) from index `from` on: every non-overlapping match  *)
(* is replaced by the expanded template `repl`.                            *)
RECURSIVE SubBlocks(_, _, _, _)
SubBlocks(s, n, repl, from) ==
    LET m == SearchBlock(s, n, from) IN
    IF m[1] = 0 THEN Slice(s, from, Len(s))
    ELSE Slice(s, from, m[1] - 1) \o repl \o SubBlocks(s, n, repl, m[2] + 1)

(* the removal pattern  start .*? end \s*  substituted by "" *)
RECURSIVE RemoveBlocks(_, _, _)
RemoveBlocks(s, n, from) ==
    LET m == SearchBlock(s, n, from) IN
    IF m[1] = 0 THEN Slice(s, from, Len(s))
    ELSE Slice(s, from, m[1] - 1) \o RemoveBlocks(s, n, SkipSpace(s, m[2]) + 1)

(***************************************************************************)
(* update_global_rule: the text written for document d, or ok = FALSE when *)
(* re raises before the write.                                             *)
(***************************************************************************)
NewBlock(n, c) == <<StartMarker(n), NL>> \o c \o <<NL, EndMarker(n)>>

Separator(d) == IF Strip(d) # <<>> THEN <<NL, NL>> ELSE <<>>

UpsertDoc(d, n, c) ==
    IF SearchBlock(d, n, 1)[1] # 0
    THEN LET t == ExpandTemplate(NewBlock(n, c)) IN
         [ok |-> t.ok, text |-> IF t.ok THEN SubBlocks(d, n, t.text, 1) ELSE d]
    ELSE [ok |-> TRUE, text |-> d \o Separator(d) \o NewBlock(n, c)]

(* remove_artifact(name, "rule", "global") on an existing document that    *)
(* holds the start marker                                                  *)
RemoveDoc(d, n) == CollapseNewlines(Strip(RemoveBlocks(d, n, 1)) \o <<NL>>)

(* list_artifacts: the names of the start markers, in document order *)
RECURSIVE ListNames(_)
ListNames(d) ==
    IF d = <<>> THEN <<>>
    ELSE (IF \E n \in Names : Head(d) = StartMarker(n)
          THEN <<CHOOSE n \in Names : Head(d) = StartMarker(n)>>
          ELSE <<>>) \o ListNames(Tail(d))

ListedNames(d) == {n \in Names : Contains(d, StartMarker(n))}

(* what lies between the markers of the block the pattern finds for n *)
BlockContent(d, n) ==
    LET m == SearchBlock(d, n, 1) IN Slice(d, m[1] + 1, m[2] - 1)

(* the start markers of the names other than n, in document order *)
OthersOrder(d, n) == SelectSeq(ListNames(d), LAMBDA m : m # n)

(***************************************************************************)
(* parse_skill_md.  A word such as "description" is one symbol.            *)
(***************************************************************************)
Dashes == <<"-", "-", "-">>

(* s.startswith(p) *)
StartsWith(s, p) == Len(s) >= Len(p) /\ SubSeq(s, 1, Len(p)) = p

(* s.find(p, from): first index >= from where p occurs in s, else 0 *)
Find(s, p, from) ==
    LET hits == {k \in from..(Len(s) - Len(p) + 1) : SubSeq(s, k, k + Len(p) - 1) = p}
    IN IF hits = {} THEN 0 ELSE CHOOSE k \in hits : \A j \in hits : k <= j

(* content.split("---", 2) *)
SplitDashes(s) ==
    LET i == Find(s, Dashes, 1)
        j == IF i = 0 THEN 0 ELSE Find(s, Dashes, i + 3)
    IN IF i = 0 THEN <<s>>
       ELSE IF j = 0 THEN <<Slice(s, 1, i - 1), Slice(s, i + 3, Len(s))>>
       ELSE <<Slice(s, 1, i - 1), Slice(s, i + 3, j - 1), Slice(s, j + 3, Len(s))>>

(* str.splitlines *)
RECURSIVE SplitLines(_)
SplitLines(s) ==
    IF s = <<>> THEN <<>>
    ELSE LET i == IndexFrom(s, NL, 1) IN
         IF i = 0 THEN <<s>>
         ELSE <<Slice(s, 1, i - 1)>> \o SplitLines(Slice(s, i + 1, Len(s)))

(* ParseLines with the key and value split around the last ":" of a line   *)
(* instead of the first                                                    *)
RECURSIVE ParseLinesLastColon(_)
ParseLinesLastColon(lines) ==
    IF lines = <<>> THEN <<>>
    ELSE LET line == Head(lines)
             i == IF Contains(line, ":")
                  THEN CHOOSE k \in 1..Len(line) :
                           line[k] = ":" /\ \A j \in (k + 1)..Len(line) : line[j] # ":"
                  ELSE 0
         IN (IF i = 0 THEN <<>>
             ELSE <<[key |-> Strip(Slice(line, 1, i - 1)),
                     val |-> Strip(Slice(line, i + 1, Len(line)))]>>)
            \o ParseLinesLastColon(Tail(lines))

(* the frontmatter dict as its items in insertion order: for each line     *)
(* holding ":", key and value around the first ":", both stripped          *)
RECURSIVE ParseLines(_)
ParseLines(lines) ==
    IF lines = <<>> THEN <<>>
    ELSE LET line == Head(lines)
             i == IndexFrom(line, ":", 1)
         IN (IF i = 0 THEN <<>>
             ELSE <<[key |-> Strip(Slice(line, 1, i - 1)),
                     val |-> Strip(Slice(line, i + 1, Len(line)))]>>)
            \o ParseLines(Tail(lines))

HasKey(fm, k) == \E i \in 1..Len(fm) : fm[i].key = k

(* dict.get(k, default): the last assignment to a key wins *)
DictGet(fm, k, default) ==
    IF HasKey(fm, k)
    THEN fm[CHOOSE i \in 1..Len(fm) :
                fm[i].key = k /\ \A j \in (i + 1)..Len(fm) : fm[j].key # k].val
    ELSE default

ParseSkillMd(content) ==
    LET parts == SplitDashes(content) IN
    IF StartsWith(content, Dashes) /\ Len(parts) >= 3
    THEN [frontmatter |-> ParseLines(SplitLines(parts[2])), body |-> Strip(parts[3])]
    ELSE [frontmatter |-> <<>>, body |-> content]

DescriptionKey == <<"description">>

(* create_workflow: the text written to WORKFLOWS_DIR/<skill_name>.md *)
CreateWorkflow(skill_name, data) ==
    LET description ==
            DictGet(data.frontmatter, DescriptionKey, <<"Workflow for " \o skill_name>>)
    IN Dashes \o <<NL, "description", ":", SP>> \o description \o <<NL>>
         \o Dashes \o <<NL>> \o data.body \o <<NL>>

(***************************************************************************)
(* State.                                                                  *)
(***************************************************************************)
VARIABLES
    gExists,      \* GLOBAL_RULES_FILE.exists()
    doc,          \* text of GLOBAL_RULES_FILE
    installed,    \* history: the names whose latest operation was an upsert
    lastOp,       \* history: the last operation on the document, its outcome
    workflows,    \* WORKFLOWS_DIR: skill name -> the file <name>.md
    rules,        \* WORKSPACE_RULES_DIR: skill name -> the file <name>.md
    cache,        \* CACHE_DIR: the source names that have a checkout
    configExists, \* CONFIG_FILE.exists()
    sources,      \* config["sources"] as CONFIG_FILE holds it
    lastCmd,      \* history: the last command run: name, kind, outcome
    skill,        \* the SKILL.md of the round trip, as the parts it is made of
    job,          \* concurrent invocations: skill_name and content of each
    pc,           \* concurrent invocations: where each one is
    rd,           \* concurrent invocations: the text each one has read
    writers       \* history: the invocations in the order of their writes

docVars == <<gExists, doc, installed, lastOp>>

fileVars == <<workflows, rules, cache>>

configVars == <<configExists, sources>>

procVars == <<job, pc, rd, writers>>

vars == <<gExists, doc, installed, lastOp, workflows, rules, cache, configExists,
          sources, lastCmd, skill, job, pc, rd, writers>>

NoOp == [op |-> "none", name |-> "", content |-> <<>>, result |-> "none"]

NoFile == [exists |-> FALSE, text |-> <<>>]

File(t) == [exists |-> TRUE, text |-> t]

NoSkill == [pre |-> <<>>, x |-> <<>>, post |-> <<>>, b |-> <<>>]

(* DEFAULT_SOURCES *)
DefaultSources ==
    (<<"anthropics">> :> <<"https://github.com/anthropics/skills">>)

NoCmd == [cmd |-> "none", args |-> <<>>, outcome |-> "none"]

Procs == {"p1", "p2"}

DocInit ==
    /\ gExists = FALSE
    /\ doc = <<>>
    /\ installed = {}
    /\ lastOp = NoOp

FilesInit ==
    /\ workflows = [n \in Names |-> NoFile]
    /\ rules = [n \in Names |-> NoFile]
    /\ cache = {}

ConfigInit ==
    /\ configExists = FALSE
    /\ sources = DefaultSources

ProcInit ==
    /\ job = [p \in Procs |-> [name |-> "", content |-> <<>>]]
    /\ pc = [p \in Procs |-> "idle"]
    /\ rd = [p \in Procs |-> <<>>]
    /\ writers = <<>>

Init ==
    /\ DocInit
    /\ FilesInit
    /\ ConfigInit
    /\ ProcInit
    /\ lastCmd = NoCmd
    /\ skill = NoSkill

(* update_global_rule(skill_name, content) *)
UpdateGlobalRule(n, c) ==
    LET r == UpsertDoc(doc, n, c)
        found == SearchBlock(doc, n, 1)[1] # 0
    IN /\ gExists' = TRUE
       /\ doc' = r.text
       /\ installed' = IF r.ok THEN installed \cup {n} ELSE installed
       /\ lastOp' = [op |-> "upsert", name |-> n, content |-> c,
                     result |-> IF ~r.ok THEN "error"
                                ELSE IF found THEN "updated" ELSE "appended"]

(* RemoveGlobalRule without the test for the start marker: the document is *)
(* rewritten whenever the file exists                                      *)
RemoveGlobalRuleUnguarded(n) ==
    LET result == IF ~gExists THEN "nofile"
                  ELSE IF ~Contains(doc, StartMarker(n)) THEN "notfound"
                  ELSE "removed"
    IN /\ doc' = IF gExists THEN RemoveDoc(doc, n) ELSE doc
       /\ gExists' = gExists
       /\ installed' = installed \ {n}
       /\ lastOp' = [op |-> "remove", name |-> n, content |-> <<>>, result |-> result]

(* remove_artifact(name, "rule", "global") *)
RemoveGlobalRule(n) ==
    LET result == IF ~gExists THEN "nofile"
                  ELSE IF ~Contains(doc, StartMarker(n)) THEN "notfound"
                  ELSE "removed"
    IN /\ doc' = IF result = "removed" THEN RemoveDoc(doc, n) ELSE doc
       /\ gExists' = gExists
       /\ installed' = installed \ {n}
       /\ lastOp' = [op |-> "remove", name |-> n, content |-> <<>>, result |-> result]

Upsert(n, c) ==
    /\ Len(UpsertDoc(doc, n, c).text) <= MaxDocLen
    /\ UpdateGlobalRule(n, c)
    /\ UNCHANGED <<fileVars, configVars, procVars, lastCmd, skill>>

Remove(n) ==
    /\ RemoveGlobalRule(n)
    /\ UNCHANGED <<fileVars, configVars, procVars, lastCmd, skill>>

(* upserts of marker-free contents, and removes *)
Next ==
    \/ \E n \in Names, c \in PlainContents : Upsert(n, c)
    \/ \E n \in Names : Remove(n)

Spec == Init /\ [][Next]_vars

(* the same with contents that may hold a marker line *)
NextAny ==
    \/ \E n \in Names, c \in PlainContents \cup MarkerContents : Upsert(n, c)
    \/ \E n \in Names : Remove(n)

SpecAny == Init /\ [][NextAny]_vars

(***************************************************************************)
(* Properties of the global rules document.  In an action formula lastOp'  *)
(* is the operation of the step, doc the document before it and doc' the   *)
(* document after it; lastOp is the operation of the step before.          *)
(***************************************************************************)

(* C1: after any sequence of upserts and removes from the empty document,  *)
(* the document holds at most one start marker and at most one end marker  *)
(* for each skill name.                                                    *)
C1_AtMostOneBlock ==
    \A n \in Names :
        Count(doc, StartMarker(n)) <= 1 /\ Count(doc, EndMarker(n)) <= 1

(* C2: upsert(n, c) followed by upsert(n, c') leaves exactly one marker    *)
(* pair for n, enclosing exactly c' on its own lines, and the order of the *)
(* blocks of the other names is as it was.                                 *)
C2_OverwriteExact ==
    [][(lastOp.op = "upsert" /\ lastOp'.op = "upsert" /\ lastOp'.name = lastOp.name)
        => LET n == lastOp'.name
               c == lastOp'.content
           IN /\ Count(doc', StartMarker(n)) = 1
              /\ Count(doc', EndMarker(n)) = 1
              /\ BlockContent(doc', n) = <<NL>> \o c \o <<NL>>
              /\ OthersOrder(doc', n) = OthersOrder(doc, n)]_vars

(* C3: remove(n) of an upserted n leaves no start and no end marker of n,  *)
(* and what lies between the markers of every other upserted name m is     *)
(* unchanged.                                                              *)
C3_RemoveFrame ==
    [][(lastOp'.op = "remove" /\ lastOp'.name \in installed)
        => LET n == lastOp'.name
           IN /\ ~Contains(doc', StartMarker(n))
              /\ ~Contains(doc', EndMarker(n))
              /\ \A m \in installed \ {n} :
                     BlockContent(doc', m) = BlockContent(doc, m)]_vars

(* C9: an upsert that finds a block for n replaces the span from the first *)
(* start marker of n to the first end marker after it by the new block and *)
(* leaves the text before and after that span as it was.                   *)
C9_ReplaceOneSpan ==
    [][(lastOp'.op = "upsert" /\ SearchBlock(doc, lastOp'.name, 1)[1] # 0)
        => LET n == lastOp'.name
               m == SearchBlock(doc, n, 1)
           IN doc' = Slice(doc, 1, m[1] - 1) \o NewBlock(n, lastOp'.content)
                        \o Slice(doc, m[2] + 1, Len(doc))]_vars

(* C10: an upsert that finds no block for n appends the new block; exactly *)
(* one blank line lies between the last non-blank symbol of the text that  *)
(* was there and the new block, and nothing is put before the block when   *)
(* there was no such text.                                                 *)
C10_AppendOneBlankLine ==
    [][(lastOp'.op = "upsert" /\ SearchBlock(doc, lastOp'.name, 1)[1] = 0)
        => LET blk == NewBlock(lastOp'.name, lastOp'.content)
           IN IF Strip(doc) = <<>> THEN doc' = doc \o blk
              ELSE doc' = RStrip(doc) \o <<NL, NL>> \o blk]_vars

(* C11: a remove of n on a document without a start marker of n, or with   *)
(* no global rules file, reports that nothing was found and leaves the     *)
(* document as it was; a missing file is not created.                      *)
C11_NotFoundUntouched ==
    [][(lastOp'.op = "remove"
        /\ (~gExists \/ ~Contains(doc, StartMarker(lastOp'.name))))
        => /\ lastOp'.result = (IF gExists THEN "notfound" ELSE "nofile")
           /\ doc' = doc
           /\ gExists' = gExists]_vars

(* a remove of "a" has reported not found on a document that holds a block *)
(* of "b"                                                                  *)
C11_Witness ==
    /\ lastOp.op = "remove"
    /\ lastOp.name = "a"
    /\ lastOp.result = "notfound"
    /\ gExists
    /\ Contains(doc, StartMarker("b"))

(* C12: an upsert of n with content c right after an upsert of n with the  *)
(* same c completes and leaves the document exactly as the first one left  *)
(* it.                                                                     *)
C12_UpsertIdempotent ==
    [][(/\ lastOp.op = "upsert"
        /\ lastOp.result # "error"
        /\ lastOp'.op = "upsert"
        /\ lastOp'.name = lastOp.name
        /\ lastOp'.content = lastOp.content)
        => /\ lastOp'.result # "error"
           /\ doc' = doc]_vars

(***************************************************************************)
(* Round trip of a SKILL.md through parse_skill_md and create_workflow.    *)
(* The file is  ---\n pre description: X\n post ---\n B  where pre and     *)
(* post are further frontmatter lines.                                     *)
(***************************************************************************)
DescChars == {"-", ":", SP, "x"}

BodyChars == {"-", SP, NL, "x"}

OtherLine == <<"x", ":", SP, "x", NL>>

DescLine(x) == <<"description", ":", SP>> \o x

SkillText(sk) ==
    Dashes \o <<NL>> \o sk.pre \o DescLine(sk.x) \o <<NL>> \o sk.post
        \o Dashes \o <<NL>> \o sk.b

Skills ==
    [pre : {<<>>, DescLine(<<"x">>) \o <<NL>>},
     x : SeqsUpTo(DescChars, MaxDescLen),
     post : {<<>>, OtherLine, DescLine(<<"x">>) \o <<NL>>},
     b : SeqsUpTo(BodyChars, MaxBodyLen)]

RtInit ==
    /\ DocInit
    /\ FilesInit
    /\ ConfigInit
    /\ ProcInit
    /\ lastCmd = NoCmd
    /\ skill \in Skills

(* command_ingest --as workflow: parse_skill_md, then create_workflow *)
IngestWorkflow(n) ==
    /\ workflows' = [workflows EXCEPT
                        ![n] = File(CreateWorkflow(n, ParseSkillMd(SkillText(skill))))]
    /\ UNCHANGED <<docVars, rules, cache, configVars, procVars, lastCmd, skill>>

RtNext == \E n \in Names : IngestWorkflow(n)

SpecRT == RtInit /\ [][RtNext]_vars

(* the workflow file of n opens with the frontmatter  ---, description: X, *)
(* --- and holds B after it                                                *)
RoundTrips(n) ==
    LET out == workflows[n].text
        fm == Dashes \o <<NL>> \o DescLine(skill.x) \o <<NL>> \o Dashes \o <<NL>>
    IN /\ StartsWith(out, fm)
       /\ Find(Slice(out, Len(fm) + 1, Len(out)), skill.b, 1) # 0

(* C4 as stated: for every description value X and body B, the workflow    *)
(* rendered from the parsed SKILL.md holds the frontmatter line            *)
(* description: X and the body B verbatim.                                 *)
C4_RoundTripAny ==
    \A n \in Names : workflows[n].exists => RoundTrips(n)

(* C4 amended: the round trip holds when X has no leading or trailing      *)
(* whitespace and does not contain ---, no later frontmatter line sets     *)
(* description again, and B has no leading or trailing whitespace.         *)
C4_RoundTripTrimmed ==
    \A n \in Names :
        (/\ workflows[n].exists
         /\ skill.x = Strip(skill.x)
         /\ Find(skill.x, Dashes, 1) = 0
         /\ skill.post # DescLine(<<"x">>) \o <<NL>>
         /\ skill.b = Strip(skill.b))
        => RoundTrips(n)

(* a SKILL.md with a colon in X and a dash in B has been rendered *)
C4_Witness ==
    /\ workflows["a"].exists
    /\ skill.x = <<"x", ":", "x">>
    /\ skill.b = <<"-", "x">>
    /\ skill.pre # <<>>
    /\ RoundTrips("a")

(***************************************************************************)
(* add-source.  The command line is drawn in the initial state (lastCmd    *)
(* holds its arguments, outcome "none") and command_add_source runs on it. *)
(***************************************************************************)
UrlChars == {"/", ".", "g", "i", "t"}

Urls == SeqsUpTo(UrlChars, MaxUrlLen)

(* the optional name argument; <<>> is "not given" *)
NameArgs == {<<>>, <<"m">>}

DotGit == <<".", "g", "i", "t">>

(* url.split("/")[-1] *)
RECURSIVE LastSegment(_)
LastSegment(s) ==
    LET i == IndexFrom(s, "/", 1) IN
    IF i = 0 THEN s ELSE LastSegment(Slice(s, i + 1, Len(s)))

(* s.replace(p, "") *)
RECURSIVE RemoveAll(_, _)
RemoveAll(s, p) ==
    LET i == Find(s, p, 1) IN
    IF i = 0 THEN s
    ELSE Slice(s, 1, i - 1) \o RemoveAll(Slice(s, i + Len(p), Len(s)), p)

(* the name command_add_source registers the url under *)
SourceName(name, url) ==
    IF name # <<>> THEN name ELSE RemoveAll(LastSegment(url), DotGit)

(* load_config *)
LoadConfig == IF configExists THEN sources ELSE DefaultSources

SrcInit ==
    /\ DocInit
    /\ FilesInit
    /\ ConfigInit
    /\ ProcInit
    /\ skill = NoSkill
    /\ lastCmd \in [cmd : {"add-source"}, args : [url : Urls, name : NameArgs],
                    outcome : {"none"}]

(* main: load_config, command_add_source, save_config *)
CommandAddSource ==
    /\ lastCmd.cmd = "add-source"
    /\ sources' = (SourceName(lastCmd.args.name, lastCmd.args.url) :> lastCmd.args.url)
                      @@ LoadConfig
    /\ configExists' = TRUE
    /\ lastCmd' = [lastCmd EXCEPT !.outcome = "added"]
    /\ UNCHANGED <<docVars, fileVars, procVars, skill>>

SrcNext == CommandAddSource

SpecSrc == SrcInit /\ [][SrcNext]_vars

EndsWith(s, p) == Len(s) >= Len(p) /\ SubSeq(s, Len(s) - Len(p) + 1, Len(s)) = p

(* the last path segment with a .git suffix stripped, nothing else removed *)
DefaultSourceName(url) ==
    LET seg == LastSegment(url) IN
    IF EndsWith(seg, DotGit) THEN Slice(seg, 1, Len(seg) - Len(DotGit)) ELSE seg

(* C7: add-source without a name registers the url under its last path     *)
(* segment with a .git suffix stripped and nothing else removed.           *)
C7_DefaultSourceName ==
    (lastCmd.outcome = "added" /\ lastCmd.args.name = <<>>)
        => /\ configExists
           /\ DefaultSourceName(lastCmd.args.url) \in DOMAIN sources
           /\ sources[DefaultSourceName(lastCmd.args.url)] = lastCmd.args.url

(***************************************************************************)
(* Two invocations of update_global_rule on the same document, for        *)
(* different names, with the arguments job[p] drawn in the initial state.  *)
(* The steps of one invocation are the file operations of                  *)
(* update_global_rule, in program order; no lock is taken, so the steps of *)
(* the two interleave freely.                                              *)
(***************************************************************************)
JobName(p) == job[p].name

JobContent(p) == job[p].content

ConcInit ==
    /\ gExists \in BOOLEAN
    /\ doc = <<>>
    /\ installed = {}
    /\ lastOp = NoOp
    /\ FilesInit
    /\ ConfigInit
    /\ lastCmd = NoCmd
    /\ skill = NoSkill
    /\ job \in [Procs -> [name : Names, content : PlainContents]]
    /\ job["p1"].name # job["p2"].name
    /\ pc = [p \in Procs |-> "check"]
    /\ rd = [p \in Procs |-> <<>>]
    /\ writers = <<>>

(* if not GLOBAL_RULES_FILE.exists() *)
CheckExists(p) ==
    /\ pc[p] = "check"
    /\ pc' = [pc EXCEPT ![p] = IF gExists THEN "read" ELSE "create"]
    /\ UNCHANGED <<docVars, fileVars, configVars, lastCmd, skill, job, rd, writers>>

(* GLOBAL_RULES_FILE.write_text("") *)
CreateEmpty(p) ==
    /\ pc[p] = "create"
    /\ gExists' = TRUE
    /\ doc' = <<>>
    /\ pc' = [pc EXCEPT ![p] = "read"]
    /\ UNCHANGED <<installed, lastOp, fileVars, configVars, lastCmd, skill, job, rd, writers>>

(* current_content = GLOBAL_RULES_FILE.read_text() *)
ReadDoc(p) ==
    /\ pc[p] = "read"
    /\ rd' = [rd EXCEPT ![p] = doc]
    /\ pc' = [pc EXCEPT ![p] = "write"]
    /\ UNCHANGED <<docVars, fileVars, configVars, lastCmd, skill, job, writers>>

(* the text the invocation updates: what it has read, as if a lock were    *)
(* held from the read to the write, that is the document as it is now      *)
CurrentContentLocked(p) == doc

(* the text the invocation updates: current_content, what it has read *)
CurrentContent(p) == rd[p]

(* GLOBAL_RULES_FILE.write_text(updated_content), or re raising before it *)
WriteDoc(p) ==
    LET r == UpsertDoc(CurrentContent(p), JobName(p), JobContent(p)) IN
    /\ pc[p] = "write"
    /\ doc' = IF r.ok THEN r.text ELSE doc
    /\ writers' = IF r.ok THEN Append(writers, p) ELSE writers
    /\ pc' = [pc EXCEPT ![p] = IF r.ok THEN "done" ELSE "failed"]
    /\ UNCHANGED <<gExists, installed, lastOp, fileVars, configVars, lastCmd, skill, job, rd>>

ConcNext ==
    \E p \in Procs : CheckExists(p) \/ CreateEmpty(p) \/ ReadDoc(p) \/ WriteDoc(p)

SpecConc == ConcInit /\ [][ConcNext]_vars

BothDone == \A p \in Procs : pc[p] = "done"

HasBlockOf(d, p) == SearchBlock(d, JobName(p), 1)[1] # 0

(* C8: nothing orders the reads and writes of two invocations: when both   *)
(* have completed, the document is what the last writer made of the text   *)
(* it had read, so it holds the block of the other invocation only if the  *)
(* last writer had read that block.                                        *)
C8_LastWriterWins ==
    BothDone =>
        LET p == writers[Len(writers)]
            q == CHOOSE o \in Procs : o # p
        IN /\ doc = UpsertDoc(rd[p], JobName(p), JobContent(p)).text
           /\ HasBlockOf(doc, p)
           /\ HasBlockOf(doc, q) <=> HasBlockOf(rd[p], q)

(* both invocations have completed and the block of one of them is lost *)
C8_LostUpdate ==
    /\ BothDone
    /\ \E q \in Procs : ~HasBlockOf(doc, q) /\ ~Contains(doc, StartMarker(JobName(q)))

(***************************************************************************)
(* The command line: ingest, remove and list against one source            *)
(* repository.  The repository holds the skill "a" (frontmatter with a     *)
(* description, and a body), the skill "b" (no frontmatter; its body       *)
(* quotes the start marker line of "a"), a directory "c" without SKILL.md, *)
(* and no directory "d".                                                   *)
(***************************************************************************)
RepoSkill(n) ==
    CASE n = "a" -> [dir |-> TRUE, file |-> TRUE,
                     text |-> SkillText([pre |-> <<>>, x |-> <<"x">>, post |-> <<>>,
                                         b |-> <<"x">>])]
      [] n = "b" -> [dir |-> TRUE, file |-> TRUE, text |-> <<StartMarker("a")>>]
      [] n = "c" -> [dir |-> TRUE, file |-> FALSE, text |-> <<>>]
      [] OTHER -> [dir |-> FALSE, file |-> FALSE, text |-> <<>>]

SkillArgs == Names \cup {"c", "d"}

(* "" stands for an option that is not given *)
IngestArgs ==
    [skill_name : SkillArgs, as_type : {"workflow"}, scope : {"workspace"},
     activation : {""}, glob_pattern : {""}, source : {"", "nosuch"}]
    \cup
    [skill_name : SkillArgs, as_type : {"rule"}, scope : {"global"},
     activation : {""}, glob_pattern : {""}, source : {""}]
    \cup
    [skill_name : SkillArgs, as_type : {"rule"}, scope : {"workspace"},
     activation : {"", "always-on"}, glob_pattern : {""}, source : {""}]
    \cup
    [skill_name : SkillArgs, as_type : {"rule"}, scope : {"workspace"},
     activation : {"glob"}, glob_pattern : {"", "**/*.test.js"}, source : {""}]

RemoveArgs ==
    [name : Names, type : {"workflow"}, scope : {"workspace"}]
    \cup [name : Names, type : {"rule"}, scope : {"workspace", "global"}]

(* create_rule_global: the content handed to update_global_rule *)
GlobalRuleContent(data) ==
    IF HasKey(data.frontmatter, DescriptionKey)
    THEN <<"<!-- ">> \o DictGet(data.frontmatter, DescriptionKey, <<>>)
            \o <<" -->", NL, NL>> \o data.body
    ELSE data.body

(* create_workspace_rule: the text written to WORKSPACE_RULES_DIR/<name>.md; *)
(* activation is [type, glob], type "" for no activation dict                *)
CreateWorkspaceRule(skill_name, data, activation) ==
    LET description ==
            DictGet(data.frontmatter, DescriptionKey, <<"Rule for " \o skill_name>>)
        act == IF activation.type = "" THEN <<>>
               ELSE <<"activation", ":", NL, SP, SP, "type", ":", SP, activation.type, NL>>
                    \o (IF activation.glob = "" THEN <<>>
                        ELSE <<SP, SP, "glob", ":", SP, activation.glob, NL>>)
    IN Dashes \o <<NL, "description", ":", SP>> \o description \o <<NL>> \o act
         \o Dashes \o <<NL, NL>> \o data.body

(* the source command_ingest syncs: args.source, else "anthropics" when    *)
(* registered, else the first registered one                               *)
IngestSource(a, srcs) ==
    IF a.source # "" THEN <<a.source>>
    ELSE IF <<"anthropics">> \in DOMAIN srcs THEN <<"anthropics">>
    ELSE CHOOSE k \in DOMAIN srcs : TRUE

(* how far command_ingest gets with the arguments a when git succeeds       *)
(* (gitOk) or exits non-zero                                               *)
IngestOutcome(a, gitOk) ==
    LET srcs == LoadConfig
        repo == RepoSkill(a.skill_name)
    IN IF a.source # "" /\ <<a.source>> \notin DOMAIN srcs THEN "source_not_found"
       ELSE IF ~gitOk THEN "git_failed"
       ELSE IF ~repo.dir THEN "skill_not_found"
       ELSE IF ~repo.file THEN "parse_error"
       ELSE IF a.as_type = "workflow" THEN "workflow"
       ELSE IF a.scope = "global" THEN "global_rule"
       ELSE IF a.activation = "glob" /\ a.glob_pattern = "" THEN "glob_required"
       ELSE "workspace_rule"

(* main, command_ingest *)
CommandIngest(a, gitOk) ==
    LET outcome == IngestOutcome(a, gitOk)
        n == a.skill_name
        data == ParseSkillMd(RepoSkill(n).text)
        activation == [type |-> a.activation,
                       glob |-> IF a.activation = "glob" THEN a.glob_pattern ELSE ""]
    IN /\ cache' = IF outcome \in {"source_not_found", "git_failed"} THEN cache
                   ELSE cache \cup {IngestSource(a, LoadConfig)}
       /\ workflows' = IF outcome = "workflow"
                       THEN [workflows EXCEPT ![n] = File(CreateWorkflow(n, data))]
                       ELSE workflows
       /\ rules' = IF outcome = "workspace_rule"
                   THEN [rules EXCEPT ![n] = File(CreateWorkspaceRule(n, data, activation))]
                   ELSE rules
       /\ IF outcome = "global_rule"
          THEN /\ Len(UpsertDoc(doc, n, GlobalRuleContent(data)).text) <= MaxCliDocLen
               /\ UpdateGlobalRule(n, GlobalRuleContent(data))
          ELSE UNCHANGED docVars
       /\ lastCmd' = [cmd |-> "ingest",
                      args |-> [name |-> n, type |-> a.as_type, scope |-> a.scope],
                      outcome |-> outcome]
       /\ UNCHANGED <<configVars, procVars, skill>>

(* main, command_remove, remove_artifact *)
CommandRemove(a) ==
    LET n == a.name IN
    /\ workflows' = IF a.type = "workflow" THEN [workflows EXCEPT ![n] = NoFile]
                    ELSE workflows
    /\ rules' = IF a.type = "rule" /\ a.scope = "workspace"
                THEN [rules EXCEPT ![n] = NoFile]
                ELSE rules
    /\ IF a.type = "rule" /\ a.scope = "global"
       THEN RemoveGlobalRule(n)
       ELSE UNCHANGED docVars
    /\ lastCmd' = [cmd |-> "remove", args |-> a,
                   outcome |-> IF a.type = "workflow"
                               THEN (IF workflows[n].exists THEN "removed" ELSE "notfound")
                               ELSE IF a.scope = "workspace"
                               THEN (IF rules[n].exists THEN "removed" ELSE "notfound")
                               ELSE lastOp'.result]
    /\ UNCHANGED <<cache, configVars, procVars, skill>>

NamesSorted == <<"a", "b">>

(* sorted(...) of a sequence of skill names *)
RECURSIVE SortedFrom(_, _)
SortedFrom(names, i) ==
    IF i > Len(NamesSorted) THEN <<>>
    ELSE SelectSeq(names, LAMBDA m : m = NamesSorted[i]) \o SortedFrom(names, i + 1)

(* the file stems of a directory, sorted *)
Stems(dir) == SelectSeq(NamesSorted, LAMBDA m : dir[m].exists)

(* list_artifacts: the names printed in each of the three sections *)
ListArtifacts ==
    [workflows |-> Stems(workflows),
     rules |-> Stems(rules),
     global |-> IF gExists THEN SortedFrom(ListNames(doc), 1) ELSE <<>>]

(* main, command_list *)
CommandList ==
    /\ lastCmd' = [cmd |-> "list", args |-> <<>>, outcome |-> ListArtifacts]
    /\ UNCHANGED <<docVars, fileVars, configVars, procVars, skill>>

CliNext ==
    \/ \E a \in IngestArgs, gitOk \in BOOLEAN : CommandIngest(a, gitOk)
    \/ \E a \in RemoveArgs : CommandRemove(a)
    \/ CommandList

SpecCli == Init /\ [][CliNext]_vars

IsIn(names, n) == \E i \in 1..Len(names) : names[i] = n

(* C5: an ingest that reports the missing glob pattern (workspace rule,    *)
(* activation glob, no --glob) has written nothing: workflows, workspace   *)
(* rules, the global document, the repository cache and the config are as  *)
(* they were.                                                              *)
C5_GlobMissingWritesNothing ==
    [][(lastCmd'.cmd = "ingest" /\ lastCmd'.outcome = "glob_required")
        => UNCHANGED <<workflows, rules, gExists, doc, cache, configExists, sources>>]_vars

(* C6: after remove of an installed artifact of any kind the artifact is   *)
(* gone (file absent, or no start marker of the name in the global         *)
(* document) and list does not report the name in that kind's section.     *)
C6_RemovedIsGone ==
    [][lastCmd'.cmd = "remove"
        => LET a == lastCmd'.args
               n == a.name
           IN /\ (a.type = "workflow" /\ workflows[n].exists)
                    => ~workflows'[n].exists /\ ~IsIn(ListArtifacts'.workflows, n)
              /\ (a.type = "rule" /\ a.scope = "workspace" /\ rules[n].exists)
                    => ~rules'[n].exists /\ ~IsIn(ListArtifacts'.rules, n)
              /\ (a.type = "rule" /\ a.scope = "global" /\ n \in installed)
                    => ~Contains(doc', StartMarker(n)) /\ ~IsIn(ListArtifacts'.global, n)
      ]_vars

(* the names list reports under global rules *)
ListedGlobal == {ListArtifacts.global[i] : i \in 1..Len(ListArtifacts.global)}

(* C13: after any sequence of upserts and removes from the empty document, *)
(* the names list reports under global rules are exactly the names whose   *)
(* latest operation was an upsert.                                         *)
C13_ListedAreInstalled == ListedGlobal = installed

====
